---- MODULE Spec2Model ----
(***************************************************************************)
(* A model of the simple-xmlparser crate: the parser-combinator engine     *)
(* (module `parser`) and the XML grammar of src/lib.rs built on top of it. *)
(*                                                                         *)
(* An input view (&str) is a sequence of one-character strings.  A parse   *)
(* result is a record: Ok(rest, val) for Ok((rest, val)), Err(rest) for    *)
(* Err(rest).  A repetition whose body succeeds without consuming anything *)
(* never returns in the code; that outcome is the record Loop.             *)
(*                                                                         *)
(* The engine is described in two ways where pred wraps a parser that      *)
(* fails: its own description hands that failure on, the description of    *)
(* close_element has every failure return the input.  The variable         *)
(* pred_restores fixes, for a whole run, which of the two the engine does; *)
(* both values are initial states.                                         *)
(***************************************************************************)
EXTENDS Naturals, Sequences, FiniteSets, TLC

VARIABLES src, input, op, result, pred_restores

vars == <<src, input, op, result, pred_restores>>

----------------------------------------------------------------------------
(* Characters *)

Quote == "\""

Alpha ==
    {"a", "b", "c", "d", "e", "f", "g", "h", "i", "j", "k", "l", "m"}
    \cup {"n", "o", "p", "q", "r", "s", "t", "u", "v", "w", "x", "y", "z"}
    \cup {"A", "B", "C", "D", "E", "F", "G", "H", "I", "J", "K", "L", "M"}
    \cup {"N", "O", "P", "Q", "R", "S", "T", "U", "V", "W", "X", "Y", "Z"}

Digit == {"0", "1", "2", "3", "4", "5", "6", "7", "8", "9"}

Whitespace == {" ", "\n", "\t", "\r"}

IsAlphabetic(c) == c \in Alpha

IsAlphanumeric(c) == c \in Alpha \cup Digit

IsWhitespace(c) == c \in Whitespace

----------------------------------------------------------------------------
(* Parse results *)

Unit == <<>>

Ok(rest, val) == [tag |-> "Ok", rest |-> rest, val |-> val]

Err(rest) == [tag |-> "Err", rest |-> rest]

Loop == [tag |-> "Loop"]

IsOk(r) == r.tag = "Ok"

IsErr(r) == r.tag = "Err"

Drop(s, n) == SubSeq(s, n + 1, Len(s))

Take(s, n) == SubSeq(s, 1, n)

IsSuffix(t, s) == Len(t) <= Len(s) /\ Drop(s, Len(s) - Len(t)) = t

----------------------------------------------------------------------------
(* Parser engine: primitives *)

(* A slip: the failure returns the literal, not the input. *)
MatchLiteral_returns_expected(expected, s) ==
    IF Len(s) >= Len(expected) /\ Take(s, Len(expected)) = expected
    THEN Ok(Drop(s, Len(expected)), Unit)
    ELSE Err(expected)

MatchLiteral(expected, s) ==
    IF Len(s) >= Len(expected) /\ Take(s, Len(expected)) = expected
    THEN Ok(Drop(s, Len(expected)), Unit)
    ELSE Err(s)

AnyChar(s) == IF s = <<>> THEN Err(s) ELSE Ok(Tail(s), Head(s))

RECURSIVE IdentTail(_)
IdentTail(s) ==
    IF s # <<>> /\ (IsAlphanumeric(Head(s)) \/ Head(s) = "-")
    THEN 1 + IdentTail(Tail(s))
    ELSE 0

Identifier(s) ==
    IF s # <<>> /\ IsAlphabetic(Head(s))
    THEN LET n == 1 + IdentTail(Tail(s)) IN Ok(Drop(s, n), Take(s, n))
    ELSE Err(s)

----------------------------------------------------------------------------
(* Parser engine: combinators *)

Map(P(_), F(_), s) ==
    LET r == P(s) IN IF r.tag = "Ok" THEN Ok(r.rest, F(r.val)) ELSE r

Pair(P1(_), P2(_), s) ==
    LET r1 == P1(s)
        r2 == P2(r1.rest)
    IN  CASE r1.tag # "Ok" -> r1
          [] r2.tag # "Ok" -> r2
          [] OTHER -> Ok(r2.rest, <<r1.val, r2.val>>)

Left(P1(_), P2(_), s) ==
    LET r1 == P1(s)
        r2 == P2(r1.rest)
    IN  CASE r1.tag # "Ok" -> r1
          [] r2.tag # "Ok" -> r2
          [] OTHER -> Ok(r2.rest, r1.val)

Right(P1(_), P2(_), s) ==
    LET r1 == P1(s)
        r2 == P2(r1.rest)
    IN  CASE r1.tag # "Ok" -> r1
          [] r2.tag # "Ok" -> r2
          [] OTHER -> Ok(r2.rest, r2.val)

Either(P1(_), P2(_), s) ==
    LET r1 == P1(s) IN IF r1.tag = "Err" THEN P2(s) ELSE r1

RECURSIVE ZeroOrMore(_, _)
ZeroOrMore(P(_), s) ==
    LET r == P(s)
        q == ZeroOrMore(P, r.rest)
    IN  CASE r.tag = "Loop" -> Loop
          [] r.tag = "Err" -> Ok(s, <<>>)
          [] Len(r.rest) >= Len(s) -> Loop
          [] q.tag # "Ok" -> q
          [] OTHER -> Ok(q.rest, <<r.val>> \o q.val)

OneOrMore(P(_), s) ==
    LET r == P(s)
        q == ZeroOrMore(P, r.rest)
    IN  CASE r.tag = "Loop" -> Loop
          [] r.tag = "Err" -> Err(s)
          [] q.tag # "Ok" -> q
          [] OTHER -> Ok(q.rest, <<r.val>> \o q.val)

(* The result of pred on input s, from the result r of the wrapped parser  *)
(* and whether the predicate rejected its value.  A rejected value fails   *)
(* with the input of pred.  A failure of the wrapped parser is handed on   *)
(* as it is, or fails with the input of pred, as pred_restores says.       *)
PredResult(r, rejected, s) ==
    CASE r.tag = "Ok" /\ rejected -> Err(s)
      [] r.tag = "Err" /\ pred_restores -> Err(s)
      [] OTHER -> r

Pred(P(_), predicate(_), s) ==
    LET r == P(s) IN PredResult(r, r.tag = "Ok" /\ ~predicate(r.val), s)

AndThen(P(_), F(_, _), s) ==
    LET r == P(s) IN IF r.tag = "Ok" THEN F(r.val, r.rest) ELSE r

WhitespaceChar(s) == Pred(AnyChar, IsWhitespace, s)

Space1(s) == OneOrMore(WhitespaceChar, s)

Space0(s) == ZeroOrMore(WhitespaceChar, s)

WhitespaceWrap(P(_), s) ==
    LET r0 == Space0(s)
        r1 == P(r0.rest)
        r2 == Space0(r1.rest)
    IN  CASE r0.tag # "Ok" -> r0
          [] r1.tag # "Ok" -> r1
          [] r2.tag # "Ok" -> r2
          [] OTHER -> Ok(r2.rest, r1.val)

----------------------------------------------------------------------------
(* XML grammar, src/lib.rs *)

Element(name, attributes, children) ==
    [name |-> name, attributes |-> attributes, children |-> children]

NotQuote(c) == c # Quote

NotQuoteChar(s) == Pred(AnyChar, NotQuote, s)

QuoteLit(s) == MatchLiteral(<<Quote>>, s)

EqLit(s) == MatchLiteral(<<"=">>, s)

LtLit(s) == MatchLiteral(<<"<">>, s)

GtLit(s) == MatchLiteral(<<">">>, s)

(* A slip: ">" for "/>". *)
SlashGtLit_typo(s) == MatchLiteral(<<">">>, s)

SlashGtLit(s) == MatchLiteral(<<"/", ">">>, s)

LtSlashLit(s) == MatchLiteral(<<"<", "/">>, s)

QuotedChars(s) == ZeroOrMore(NotQuoteChar, s)

QuotedTail(s) == Left(QuotedChars, QuoteLit, s)

QuotedBody(s) == Right(QuoteLit, QuotedTail, s)

(* chars.into_iter().collect(): the String of the same characters. *)
Collect(chars) == [i \in 1..Len(chars) |-> chars[i]]

quoted_string(s) == Map(QuotedBody, Collect, s)

AttributeValue(s) == Right(EqLit, quoted_string, s)

attribute_pair(s) == Pair(Identifier, AttributeValue, s)

(* A slip: the whitespace and the attribute are both optional. *)
SpacedAttribute_optional(s) ==
    Right(Space0, LAMBDA t: ZeroOrMore(attribute_pair, t), s)

SpacedAttribute(s) == Right(Space1, attribute_pair, s)

Reverse(q) == [i \in 1..Len(q) |-> q[Len(q) + 1 - i]]

(* A slip: the attributes are collected last first. *)
attributes_reversed(s) ==
    Map(LAMBDA t: ZeroOrMore(SpacedAttribute, t), Reverse, s)

attributes(s) == ZeroOrMore(SpacedAttribute, s)

NameAndAttributes(s) == Pair(Identifier, attributes, s)

element_start(s) == Right(LtLit, NameAndAttributes, s)

NewElement(v) == Element(v[1], v[2], <<>>)

SingleTag(s) == Left(element_start, SlashGtLit, s)

single_element(s) == Map(SingleTag, NewElement, s)

OpenTag(s) == Left(element_start, GtLit, s)

open_element(s) == Map(OpenTag, NewElement, s)

ClosingName(s) == Left(Identifier, GtLit, s)

ClosingTag(s) == Right(LtSlashLit, ClosingName, s)

(* A slip: the name is compared before the '>' is read, so a mismatch     *)
(* restores only what the identifier consumed.                             *)
close_element_pred_on_name(expected_name, s) ==
    Right(LtSlashLit,
          LAMBDA t: Left(LAMBDA u: Pred(Identifier,
                                        LAMBDA name: name = expected_name, u),
                         GtLit, t),
          s)

(* A slip: the name of the closing tag is not compared. *)
close_element_unchecked(expected_name, s) == ClosingTag(s)

close_element(expected_name, s) ==
    Pred(ClosingTag, LAMBDA name: name = expected_name, s)

RECURSIVE element(_)

Children(s) == ZeroOrMore(element, s)

(* A slip: the parsed children are not stored. *)
ParentBody_no_children(el, s) ==
    Map(LAMBDA t: Left(Children, LAMBDA u: close_element(el.name, u), t),
        LAMBDA children: el,
        s)

ParentBody(el, s) ==
    Map(LAMBDA t: Left(Children, LAMBDA u: close_element(el.name, u), t),
        LAMBDA children: Element(el.name, el.attributes, children),
        s)

parent_element(s) == AndThen(open_element, ParentBody, s)

SingleOrParent(s) == Either(single_element, parent_element, s)

(* A slip: no whitespace_wrap. *)
element_unwrapped(s) == SingleOrParent(s)

element(s) == WhitespaceWrap(SingleOrParent, s)

----------------------------------------------------------------------------
(* Documents: how the inputs of the checks are written *)

MaxNodes == 4

MaxBadNodes == 3

MaxFragNodes == 2

MaxAttrs == 2

MaxLen == 4

MaxWs == 1

RECURSIVE Concat(_)
Concat(ss) == IF ss = <<>> THEN <<>> ELSE Head(ss) \o Concat(Tail(ss))

RECURSIVE Spaces(_)
Spaces(n) == IF n = 0 THEN <<>> ELSE <<" ">> \o Spaces(n - 1)

WsRuns == {Spaces(k) : k \in 0..MaxWs} \cup {<<"\n">>}

Labels ==
    { [name |-> <<"a">>, attributes |-> <<>>],
      [name |-> <<"b">>, attributes |-> <<>>],
      [name |-> <<"a", "-", "1">>,
       attributes |-> << <<<<"b">>, <<"1", " ">>>> >>] }

ElemNames == {l.name : l \in Labels}

AttrNames == {<<"a">>, <<"b", "-", "1">>}

AttrVals == {<<>>, <<"1", " ">>, <<"<", "/", ">">>}

RECURSIVE SeqsUpTo(_, _)
SeqsUpTo(S, n) ==
    IF n = 0 THEN {<<>>}
    ELSE {<<>>} \cup {<<x>> \o q : x \in S, q \in SeqsUpTo(S, n - 1)}

AttrSeqs == SeqsUpTo(AttrNames \X AttrVals, MaxAttrs)

RawChars == {"<", ">", "/", "a", " ", "=", Quote}

RawStrings == SeqsUpTo(RawChars, MaxLen)

RECURSIVE TreesOfSize(_), ForestsOfSize(_)
TreesOfSize(n) ==
    IF n = 0 THEN {}
    ELSE {Element(l.name, l.attributes, f) : l \in Labels, f \in ForestsOfSize(n - 1)}

ForestsOfSize(m) ==
    IF m = 0 THEN {<<>>}
    ELSE UNION {{<<t>> \o f : t \in TreesOfSize(k), f \in ForestsOfSize(m - k)} :
                k \in 1..m}

Trees(n) == UNION {TreesOfSize(k) : k \in 1..n}

RECURSIVE Size(_), ForestSize(_)
Size(t) == 1 + ForestSize(t.children)

ForestSize(f) == IF f = <<>> THEN 0 ELSE Size(Head(f)) + ForestSize(Tail(f))

RECURSIVE Depth(_)
Depth(t) ==
    IF t.children = <<>> THEN 1
    ELSE 1 + (CHOOSE d \in {Depth(t.children[i]) : i \in 1..Len(t.children)} :
                \A i \in 1..Len(t.children) : Depth(t.children[i]) <= d)

(* Nodes are numbered in document order, the root being node 1. *)
ChildIndex(t, idx, i) == idx + 1 + ForestSize(SubSeq(t.children, 1, i - 1))

(* The child of t whose subtree holds node k. *)
ChildHolding(t, idx, k) ==
    CHOOSE i \in 1..Len(t.children) :
        /\ ChildIndex(t, idx, i) <= k
        /\ k < ChildIndex(t, idx, i) + Size(t.children[i])

RECURSIVE NodeName(_, _, _)
NodeName(t, idx, k) ==
    IF idx = k THEN t.name
    ELSE LET i == ChildHolding(t, idx, k)
         IN  NodeName(t.children[i], ChildIndex(t, idx, i), k)

SerAttr(a, sep) == sep \o a[1] \o <<"=", Quote>> \o a[2] \o <<Quote>>

SerAttrs(attrs, sep) == Concat([i \in 1..Len(attrs) |-> SerAttr(attrs[i], sep)])

SerStart(t) == <<"<">> \o t.name \o SerAttrs(t.attributes, <<" ">>)

SerClose(name) == <<"<", "/">> \o name \o <<">">>

SerSingle(name, attrs) == SerStart(Element(name, attrs, <<>>)) \o <<"/", ">">>

(* The text of node t (node number idx): a childless node is written       *)
(* <name attrs/>, a node with children <name attrs> children </name>, with *)
(* gap before every child and before the closing tag.  Node k, if any, is  *)
(* written with an opening and a closing tag, the closing tag naming close.*)
RECURSIVE Write(_, _, _, _, _)
Write(t, idx, k, close, gap) ==
    IF idx # k /\ t.children = <<>>
    THEN SerStart(t) \o <<"/", ">">>
    ELSE SerStart(t) \o <<">">>
         \o Concat([i \in 1..Len(t.children) |->
                gap \o Write(t.children[i], ChildIndex(t, idx, i), k, close, gap)])
         \o gap \o SerClose(IF idx = k THEN close ELSE t.name)

SerTree(t, gap) == Write(t, 1, 0, <<>>, gap)

(* The text of node t up to the closing tag of node k, which t holds. *)
RECURSIVE WriteUpToClose(_, _, _, _, _)
WriteUpToClose(t, idx, k, close, gap) ==
    IF idx = k
    THEN SerStart(t) \o <<">">>
         \o Concat([i \in 1..Len(t.children) |->
                gap \o Write(t.children[i], ChildIndex(t, idx, i), k, close, gap)])
         \o gap
    ELSE LET j == ChildHolding(t, idx, k) IN
         SerStart(t) \o <<">">>
         \o Concat([i \in 1..(j - 1) |->
                gap \o Write(t.children[i], ChildIndex(t, idx, i), k, close, gap)])
         \o gap
         \o WriteUpToClose(t.children[j], ChildIndex(t, idx, j), k, close, gap)

(* The text of the root t up to the point where the repetition over its    *)
(* children stops: after its opening tag if no child comes before the      *)
(* closing tag of node k, else after the last child before it and the      *)
(* whitespace that follows that child.                                     *)
WriteUpToResume(t, k, close, gap) ==
    LET j == IF k = 1 THEN Len(t.children) + 1 ELSE ChildHolding(t, 1, k) IN
    SerStart(t) \o <<">">>
    \o Concat([i \in 1..(j - 1) |->
           gap \o Write(t.children[i], ChildIndex(t, 1, i), k, close, gap)])
    \o (IF j > 1 THEN gap ELSE <<>>)

Suffixes(s) == {Drop(s, n) : n \in 0..Len(s)}

BadSources(n) ==
    UNION {[kind : {"bad"}, tree : {t}, target : 1..Size(t),
            close : ElemNames, gap : WsRuns] : t \in Trees(n)}

BadDoc(b) == b.gap \o Write(b.tree, 1, b.target, b.close, b.gap) \o b.gap

(* The inputs of the tests of src/lib.rs *)

DocTagOpenerOk ==
    <<"<", "m", "y", "-", "f", "i", "r", "s", "t", "-", "e", "l", "e", "m",
      "e", "n", "t", "/", ">">>

DocOops ==
    <<"o", "o", "p", "s">>

DocBangOops ==
    <<"<", "!", "o", "o", "p", "s">>

DocQuoted ==
    <<"\"", "H", "e", "l", "l", "o", " ", "J", "o", "e", "!", "\"">>

DocAttributes ==
    <<" ", "o", "n", "e", "=", "\"", "1", "\"", " ", "t", "w", "o", "=",
      "\"", "2", "\"">>

DocSingle ==
    <<"<", "d", "i", "v", " ", "c", "l", "a", "s", "s", "=", "\"", "f",
      "l", "o", "a", "t", "\"", "/", ">">>

DocXml ==
    <<"\n", " ", " ", " ", " ", " ", " ", " ", " ", "<", "t", "o", "p",
      " ", "l", "a", "b", "e", "l", "=", "\"", "T", "o", "p", "\"", ">",
      "\n", " ", " ", " ", " ", " ", " ", " ", " ", " ", " ", " ", " ",
      "<", "s", "e", "m", "i", "-", "b", "o", "t", "t", "o", "m", " ", "l",
      "a", "b", "e", "l", "=", "\"", "B", "o", "t", "t", "o", "m", "\"",
      "/", ">", "\n", " ", " ", " ", " ", " ", " ", " ", " ", " ", " ",
      " ", " ", "<", "m", "i", "d", "d", "l", "e", ">", "\n", " ", " ",
      " ", " ", " ", " ", " ", " ", " ", " ", " ", " ", " ", " ", " ", " ",
      "<", "b", "o", "t", "t", "o", "m", " ", "l", "a", "b", "e", "l", "=",
      "\"", "A", "n", "o", "t", "h", "e", "r", " ", "b", "o", "t", "t",
      "o", "m", "\"", "/", ">", "\n", " ", " ", " ", " ", " ", " ", " ",
      " ", " ", " ", " ", " ", "<", "/", "m", "i", "d", "d", "l", "e", ">",
      "\n", " ", " ", " ", " ", " ", " ", " ", " ", "<", "/", "t", "o",
      "p", ">">>

DocMismatched ==
    <<"\n", " ", " ", " ", " ", " ", " ", " ", " ", "<", "t", "o", "p",
      ">", "\n", " ", " ", " ", " ", " ", " ", " ", " ", " ", " ", " ",
      " ", "<", "b", "o", "t", "t", "o", "m", "/", ">", "\n", " ", " ",
      " ", " ", " ", " ", " ", " ", "<", "/", "m", "i", "d", "d", "l", "e",
      ">">>

TestInputs ==
    {DocTagOpenerOk, DocOops, DocBangOops, DocQuoted, DocAttributes, DocSingle,
     DocXml, DocMismatched}

----------------------------------------------------------------------------
(* The state machine: an input is chosen, then one parser is applied to it *)

NoResult == [tag |-> "None"]

NoOp == [name |-> "none", arg |-> <<>>]

Done(name) == op.name = name

Run(name, arg, r) ==
    /\ op = NoOp
    /\ op' = [name |-> name, arg |-> arg]
    /\ result' = r
    /\ UNCHANGED <<src, input, pred_restores>>

(* A slip: a failure of the pair restores the input. *)
tag_opener_backtracking(s) ==
    LET r == Pair(LtLit, Identifier, s) IN IF IsErr(r) THEN Err(s) ELSE r

tag_opener(s) == Pair(LtLit, Identifier, s)

RunElement == Run("element", <<>>, element(input))

RunSingleElement == Run("single_element", <<>>, single_element(input))

RunParentElement == Run("parent_element", <<>>, parent_element(input))

RunOpenElement == Run("open_element", <<>>, open_element(input))

RunCloseElement ==
    \E expected_name \in {<<"a">>, <<"b">>} :
        Run("close_element", expected_name, close_element(expected_name, input))

RunAttributes == Run("attributes", <<>>, attributes(input))

RunSpacedAttribute == Run("spaced_attribute", <<>>, SpacedAttribute(input))

RunQuotedString == Run("quoted_string", <<>>, quoted_string(input))

RunNotQuoteChar == Run("not_quote_char", <<>>, NotQuoteChar(input))

RunTagOpener == Run("tag_opener", <<>>, tag_opener(input))

Start(s, i) ==
    /\ src = s
    /\ input = i
    /\ op = NoOp
    /\ result = NoResult
    /\ pred_restores \in BOOLEAN

(* Fragments: short strings over the grammar's characters, the inputs of   *)
(* the tests, and every suffix of small documents, well-formed or not.     *)
Fragments ==
    RawStrings \cup TestInputs
    \cup UNION {Suffixes(BadDoc(b)) : b \in BadSources(MaxFragNodes)}
    \cup UNION {Suffixes(SerSingle(n, a)) : n \in ElemNames, a \in AttrSeqs}

Init == \E i \in Fragments : Start([kind |-> "fragment"], i)

Next ==
    \/ RunElement
    \/ RunSingleElement
    \/ RunParentElement
    \/ RunOpenElement
    \/ RunCloseElement
    \/ RunAttributes
    \/ RunSpacedAttribute
    \/ RunQuotedString
    \/ RunNotQuoteChar
    \/ RunTagOpener

Spec == Init /\ [][Next]_vars

(* Single elements: <name a1="v1" a2="v2".../> *)
InitSingle ==
    \E n \in ElemNames, a \in AttrSeqs :
        Start([kind |-> "single", name |-> n, attrs |-> a], SerSingle(n, a))

NextSingle == RunElement \/ RunSingleElement

SpecSingle == InitSingle /\ [][NextSingle]_vars

(* Well-formed nested documents *)
InitTree ==
    \E t \in Trees(MaxNodes), g \in WsRuns :
        Start([kind |-> "tree", tree |-> t, gap |-> g], g \o SerTree(t, g) \o g)

NextTree == RunElement \/ RunParentElement

SpecTree == InitTree /\ [][NextTree]_vars

(* Documents with one closing tag that may name another element *)
InitBad == \E b \in BadSources(MaxBadNodes) : Start(b, BadDoc(b))

NextBad == RunElement \/ RunParentElement

SpecBad == InitBad /\ [][NextBad]_vars

----------------------------------------------------------------------------
(* Properties of documents with a misnamed closing tag (SpecBad) *)

Misnamed == src.close # NodeName(src.tree, 1, src.target)

(* The input from the '</' of the closing tag of node src.target on. *)
CloseView ==
    Drop(input, Len(src.gap)
                + Len(WriteUpToClose(src.tree, 1, src.target, src.close, src.gap)))

(* The input from the end of the root's opening tag on. *)
AfterRootOpenView == Drop(input, Len(src.gap) + Len(SerStart(src.tree)) + 1)

(* The input from the point where the root's repetition over children stops. *)
ResumeView ==
    Drop(input, Len(src.gap)
                + Len(WriteUpToResume(src.tree, src.target, src.close, src.gap)))

\* C1 (as stated): a root <n1> c1 ... ck </n2>, n1 # n2, with well-formed
\* children and optional whitespace, fails with the view that starts at the
\* '</' of the misnamed closing tag.
C1_AsStated ==
    (Done("element") /\ src.target = 1 /\ Misnamed)
        => (IsErr(result) /\ result.rest = CloseView)

\* C1 (amended): a root <n1> c1 ... ck </n2>, n1 # n2, with well-formed
\* children fails; the view starts at the '</' of the misnamed closing tag,
\* except when k = 0 and whitespace separates the two tags, where it starts
\* at that whitespace, directly after the opening tag.
C1_MismatchedRoot ==
    (Done("element") /\ src.target = 1 /\ Misnamed)
        => /\ IsErr(result)
           /\ result.rest = IF src.tree.children = <<>> /\ src.gap # <<>>
                            THEN AfterRootOpenView
                            ELSE CloseView

C1_Witness ==
    /\ Done("element")
    /\ src.target = 1
    /\ Misnamed
    /\ src.tree.children # <<>>
    /\ src.gap # <<>>
    /\ IsErr(result)
    /\ result.rest = SerClose(src.close) \o src.gap

\* C7 (as stated): a misnamed closing tag at any depth makes element() fail
\* with the view that starts at that closing tag.
C7_AsStated ==
    (Done("element") /\ Misnamed) => (IsErr(result) /\ result.rest = CloseView)

\* C7 (amended): a misnamed closing tag at any depth makes element() fail.
\* The view starts where the root's repetition over its children stopped:
\* after the root's opening tag when no child of the root parsed, else at
\* the first character after the last parsed child and the whitespace that
\* follows it.  That is the misnamed closing tag only when it is the root's
\* own and a child precedes it or no whitespace does; for a nested mismatch
\* it is the start of the root's child that holds the misnamed element.
C7_MismatchedAnywhere ==
    (Done("element") /\ Misnamed)
        => /\ IsErr(result)
           /\ result.rest = ResumeView
           /\ (src.target = 1 /\ (src.tree.children # <<>> \/ src.gap = <<>>))
                  => result.rest = CloseView
           /\ src.target # 1 => Len(result.rest) > Len(CloseView)

C7_Witness ==
    /\ Done("element")
    /\ Misnamed
    /\ src.target # 1
    /\ ChildHolding(src.tree, 1, src.target) > 1
    /\ IsErr(result)
    /\ result.rest = ResumeView
    /\ Head(result.rest) = "<"

----------------------------------------------------------------------------
(* Round trips (SpecSingle, SpecTree) *)

\* C2: the text <name a1="v1" a2="v2".../> parses, with element() and with
\* single_element(), to Element{name, attrs, []} with nothing remaining:
\* attributes in source order, duplicate names kept.
C2_SingleRoundTrip ==
    op # NoOp => result = Ok(<<>>, Element(src.name, src.attrs, <<>>))

C2_Witness ==
    /\ Done("single_element")
    /\ Len(src.attrs) = 2
    /\ src.attrs[1][1] = src.attrs[2][1]
    /\ src.attrs[1][2] # src.attrs[2][2]
    /\ IsOk(result)
    /\ result.val.attributes = src.attrs

\* C3: the document written from an Element tree (childless nodes
\* self-closing, whitespace between tags) parses with element() to exactly
\* that tree, with nothing remaining.
C3_NestedRoundTrip ==
    Done("element") => result = Ok(<<>>, src.tree)

C3_Witness ==
    /\ Done("element")
    /\ Depth(src.tree) >= 3
    /\ Len(src.tree.children) >= 2
    /\ src.tree.children[1].name # src.tree.children[2].name
    /\ src.gap # <<>>
    /\ IsOk(result)
    /\ result.val = src.tree

----------------------------------------------------------------------------
(* Properties of every input (Spec) *)

GrammarParsers ==
    {"element", "single_element", "parent_element", "attributes", "quoted_string"}

\* C5: whatever a grammar parser returns, the remaining input of a success
\* and the view of a failure are suffixes of the input.
C5_SuffixInvariant ==
    op.name \in GrammarParsers
        => /\ result.tag \in {"Ok", "Err"}
           /\ IsSuffix(result.rest, input)

C5_Witness ==
    /\ Done("element")
    /\ input = DocMismatched
    /\ IsErr(result)
    /\ result.rest = Drop(input, Len(input) - 9)

\* C6: pair(match_literal("<"), identifier) fails with the first parser's
\* view if that fails, with the second parser's view, a suffix of what the
\* first left, if that fails, and else returns both values and what the
\* second left.
C6_PairDoesNotBacktrack ==
    Done("tag_opener")
        => LET r1 == LtLit(input)
               r2 == Identifier(r1.rest)
           IN  /\ IsErr(r1) => result = Err(r1.rest)
               /\ (IsOk(r1) /\ IsErr(r2))
                      => (result = Err(r2.rest) /\ IsSuffix(r2.rest, r1.rest))
               /\ (IsOk(r1) /\ IsOk(r2))
                      => result = Ok(r2.rest, <<r1.val, r2.val>>)
               /\ input = DocOops => result = Err(DocOops)
               /\ input = DocBangOops => result = Err(Tail(DocBangOops))

C6_Witness ==
    /\ Done("tag_opener")
    /\ input = DocBangOops
    /\ result = Err(<<"!", "o", "o", "p", "s">>)

StartsWith(s, prefix) == Len(s) >= Len(prefix) /\ Take(s, Len(prefix)) = prefix

\* C8: close_element(expected_name) succeeds exactly on an input that
\* starts with '</' expected_name '>', and every failure returns the input
\* itself.  Whether this holds is decided by what pred does with a failure
\* of the parser it wraps: it holds when pred_restores, and fails on an
\* input such as '</a' (no '>') otherwise.
C8_CloseElementRestores ==
    Done("close_element")
        => /\ IsOk(result) <=> StartsWith(input, SerClose(op.arg))
           /\ IsErr(result) => result.rest = input

(* The statement of C8 under the engine whose pred returns its input on    *)
(* every failure.                                                          *)
C8_UnderRestoringPred == pred_restores => C8_CloseElementRestores

(* The statement of C8 under the engine whose pred hands on the failure of *)
(* the parser it wraps.                                                    *)
C8_UnderPropagatingPred == ~pred_restores => C8_CloseElementRestores

(* What close_element does under both: it succeeds exactly on an input     *)
(* that starts with '</' expected_name '>'; a failure returns the input    *)
(* when the input does not start with '</' or when a whole closing tag of  *)
(* another name was read, and a suffix of the input in any case.           *)
C8_UnderBoth ==
    Done("close_element")
        => /\ IsOk(result) <=> StartsWith(input, SerClose(op.arg))
           /\ IsErr(result) => IsSuffix(result.rest, input)
           /\ (IsErr(result) /\ (~StartsWith(input, <<"<", "/">>)
                                  \/ IsOk(ClosingTag(input))))
                  => result.rest = input

\* C9: every parse returns; an iteration of each repetition of the grammar
\* (element, whitespace and attribute_pair, a non-quote character) leaves
\* less input than it got, and the children of a parent are parsed from
\* what is left once its opening tag, starting with '<', is consumed.
C9_Termination ==
    /\ op # NoOp => result.tag \in {"Ok", "Err"}
    /\ (op.name \in {"element", "spaced_attribute", "not_quote_char"} /\ IsOk(result))
           => Len(result.rest) < Len(input)
    /\ (Done("open_element") /\ IsOk(result))
           => (Head(input) = "<" /\ Len(result.rest) < Len(input))

C9_Witness ==
    /\ Done("element")
    /\ input = DocXml
    /\ IsOk(result)
    /\ result.rest = <<>>
    /\ Len(result.val.children) = 2
    /\ Len(result.val.children[2].children) = 1

----------------------------------------------------------------------------
(* Whitespace and well-formedness of what element() accepts (Spec) *)

Odd(n) == n % 2 = 1

(* Position i of c lies inside a quoted attribute value. *)
InQuote(c, i) ==
    c[i] # Quote /\ Odd(Cardinality({j \in 1..(i - 1) : c[j] = Quote}))

(* Position i of c lies inside a tag: the last '<' or '>' before it that   *)
(* is not quoted is a '<'.                                                 *)
InTag(c, i) ==
    LET B == {j \in 1..(i - 1) : c[j] \in {"<", ">"} /\ ~InQuote(c, j)} IN
    B # {} /\ c[CHOOSE j \in B : \A m \in B : m <= j] = "<"

(* Whitespace inside a tag and outside its values: an attribute separator. *)
IsSep(c, i) == IsWhitespace(c[i]) /\ ~InQuote(c, i) /\ InTag(c, i)

(* c without the whitespace around its tags and with every attribute      *)
(* separator replaced by one space.                                        *)
Normalize(c) ==
    SelectSeq([i \in 1..Len(c) |->
                  CASE IsSep(c, i) -> IF i > 1 /\ IsSep(c, i - 1) THEN "" ELSE " "
                    [] IsWhitespace(c[i]) /\ ~InQuote(c, i) -> ""
                    [] OTHER -> c[i]],
              LAMBDA x : x # "")

RECURSIVE ConcatChoices(_)
ConcatChoices(sets) ==
    IF sets = <<>> THEN {<<>>}
    ELSE {x \o y : x \in Head(sets), y \in ConcatChoices(Tail(sets))}

(* The well-formed texts of an element, without optional whitespace: a    *)
(* childless element is <name attrs/> or <name attrs></name>.              *)
RECURSIVE SerAll(_)
SerAll(t) ==
    LET inner == ConcatChoices([i \in 1..Len(t.children) |-> SerAll(t.children[i])])
        open == {SerStart(t) \o <<">">> \o k \o SerClose(t.name) : k \in inner}
    IN  IF t.children = <<>> THEN open \cup {SerStart(t) \o <<"/", ">">>} ELSE open

RECURSIVE NamesAreIdentifiers(_)
NamesAreIdentifiers(t) ==
    /\ t.name # <<>>
    /\ Identifier(t.name) = Ok(<<>>, t.name)
    /\ \A i \in 1..Len(t.children) : NamesAreIdentifiers(t.children[i])

Consumed == Take(input, Len(input) - Len(result.rest))

\* C10: what element() accepts is, up to whitespace around elements and
\* between attributes, a well-formed text of the Element it returns: names
\* are identifiers, every opening tag is closed by the closing tag of the
\* same name, properly nested, and a self-closing tag has no children.
C10_AcceptedIsWellFormed ==
    (Done("element") /\ IsOk(result))
        => /\ NamesAreIdentifiers(result.val)
           /\ Normalize(Consumed) \in SerAll(result.val)

C10_Witness ==
    /\ Done("element")
    /\ IsOk(result)
    /\ result.val.children # <<>>
    /\ result.val.children[1].attributes # <<>>
    /\ Normalize(Consumed) # Consumed

SepStarts(c) ==
    {i \in 1..Len(c) : IsSep(c, i) /\ ~(i > 1 /\ IsSep(c, i - 1))}

SepEnd(c, i) ==
    CHOOSE j \in i..Len(c) :
        /\ \A m \in i..j : IsSep(c, m)
        /\ j = Len(c) \/ ~IsSep(c, j + 1)

ReplaceSep(c, i, w) == Take(c, i - 1) \o w \o Drop(c, SepEnd(c, i))

Separators == (WsRuns \ {<<>>}) \cup {<<"\n", " ">>, <<"\t">>}

SameElement(d) == LET r == element(d) IN IsOk(r) /\ r.val = result.val

\* C4: if element() parses d to E, it parses w1 d w2 to E for all whitespace
\* w1 and w2, and it parses d with any one attribute separator replaced by
\* another non-empty whitespace run to E.
C4_WhitespaceInsensitive ==
    (Done("element") /\ IsOk(result))
        => /\ \A w1 \in WsRuns, w2 \in WsRuns : SameElement(w1 \o input \o w2)
           /\ \A i \in SepStarts(Consumed), w \in Separators :
                  SameElement(ReplaceSep(input, i, w))

C4_Witness ==
    /\ Done("element")
    /\ IsOk(result)
    /\ result.val.children # <<>>
    /\ Cardinality(SepStarts(Consumed)) >= 2
    /\ \E i \in SepStarts(Consumed) :
           /\ ReplaceSep(input, i, <<"\n", " ">>) # input
           /\ SameElement(<<"\n">> \o ReplaceSep(input, i, <<"\n", " ">>) \o <<" ">>)

====
